---- MODULE Spec2Model ----
(***************************************************************************)
(* Model of the MethodCache reporting scripts:                             *)
(*   .github/scripts/update-readme-performance.py  (README updater)        *)
(*   .performance-data/generate-charts.py          (chart generator)       *)
(*                                                                         *)
(* Text is modelled as a sequence of tokens.  Every token stands for a     *)
(* fixed piece of text, and the regular expressions of the scripts are     *)
(* evaluated on the tokens exactly as Python's re evaluates them on the    *)
(* characters the tokens stand for:                                        *)
(*   "NL"  a newline                                                       *)
(*   "T"   text without '#' and without newline                            *)
(*   "#"   a single '#' directly followed by the next token                *)
(*   "H1"  "# <title>"            "H2"  "## <some other title>"            *)
(*   "P"   "## Performance"       "PE"  "## <zap> Performance"             *)
(*   "C"   "## Contributing"      "L"   "## License"                       *)
(*   "S"   "## Support"           "D"   "## Documentation"                 *)
(***************************************************************************)
EXTENDS Integers, Sequences, FiniteSets, TLC

VARIABLES
    readme,   \* content of the target file (README.md)
    prev,     \* content of the target file when the last call started
    ret,      \* outcome of the last update_readme_performance call
    fault,    \* the I/O fault the environment raised during the last call
    calls,    \* number of calls made so far
    data,     \* the datasets load_performance_data returned (oldest file first)
    chart,    \* what the last chart renderer call returned
    latest,   \* the dataset load_latest_performance_data returned
    out,      \* what the last generator call returned
    files,    \* the benchmark-*.json files of the data directory, by filename
    loaded,   \* what the last loader call returned
    run,      \* the tool process that ran, and how it ended
    outputs   \* the output files the chart generator has written

vars == <<readme, prev, ret, fault, calls, data, chart, latest, out, files, loaded, run, outputs>>
readmeVars == <<readme, prev, ret, fault, calls>>
chartVars == <<data, chart>>
reportVars == <<latest, out>>
toolVars == <<files, loaded, run, outputs>>

\* ------------------------------------------------------------------ bounds
MaxDocLen == 3
MaxCalls == 2

\* ------------------------------------------------------------ text tokens
DocTokens == {"NL", "T", "H1", "H2", "P", "PE", "C", "L", "S", "D"}

RECURSIVE SeqsUpTo(_, _)
SeqsUpTo(S, n) ==
    IF n = 0 THEN {<<>>}
    ELSE LET shorter == SeqsUpTo(S, n - 1)
         IN  shorter \cup {Append(s, x) : s \in {t \in shorter : Len(t) = n - 1}, x \in S}

Documents == SeqsUpTo(DocTokens, MaxDocLen)

\* The text of the token starts with "## " / with "# ".
StartsH2(t) == t \in {"H2", "P", "PE", "C", "L", "S", "D"}
StartsH1(t) == t = "H1"

\* generate_performance_section: "## <zap> Performance", the badges, the
\* table ..., "### Performance Highlights" ("#" then "## Performance"), bullets.
PerformanceSection == <<"PE", "NL", "T", "NL", "#", "P", "T", "NL", "T">>

\* ------------------------------------------------- the section pattern
\* (## <zap> Performance|## Performance) : the alternatives of the pattern.
IsPerfHeading(t) == t \in {"PE", "P"}

\* (?=\n## |\n# |\Z) at position e (the index of the next unread token).
PerfLookahead(doc, e) ==
    \/ e = Len(doc) + 1
    \/ /\ e + 1 <= Len(doc)
       /\ doc[e] = "NL"
       /\ StartsH2(doc[e + 1]) \/ StartsH1(doc[e + 1])

\* .*? with DOTALL: the match that starts at i ends at the first position
\* after the heading where the lookahead holds.
PerfMatchEnd(doc, i) ==
    CHOOSE e \in (i + 1)..(Len(doc) + 1) :
        /\ PerfLookahead(doc, e)
        /\ \A f \in (i + 1)..(e - 1) : ~PerfLookahead(doc, f)

\* Start of the leftmost match at or after `from`, 0 when there is none.
PerfSearchFrom(doc, from) ==
    LET hits == {i \in from..Len(doc) : IsPerfHeading(doc[i])}
    IN  IF hits = {} THEN 0 ELSE CHOOSE i \in hits : \A j \in hits : i <= j

\* re.search(pattern, content, re.DOTALL)
PerfSearch(doc) == PerfSearchFrom(doc, 1) # 0

\* re.sub(pattern, repl, content, count, flags=re.DOTALL): count = 0 replaces
\* every non-overlapping match, left to right.  The generated section holds
\* no backslash, so the replacement template stands for itself.
RECURSIVE ReSubPerf(_, _, _, _)
ReSubPerf(doc, from, repl, count) ==
    LET i == PerfSearchFrom(doc, from)
    IN  IF i = 0
        THEN SubSeq(doc, from, Len(doc))
        ELSE LET e == PerfMatchEnd(doc, i)
             IN  SubSeq(doc, from, i - 1) \o repl \o
                 (IF count = 1 THEN SubSeq(doc, e, Len(doc))
                  ELSE ReSubPerf(doc, e, repl, IF count = 0 THEN 0 ELSE count - 1))

\* ------------------------------------------------ the insertion patterns
\* insertion_patterns, in order; "Z" stands for r'\Z'.
InsertionPatterns == <<"C", "L", "S", "D", "Z">>

\* Start of the leftmost match of r'\n(## <anchor>)', 0 when there is none.
\* r'\Z' matches at the end of every document.
InsertionSearch(doc, pat) ==
    IF pat = "Z" THEN Len(doc) + 1
    ELSE LET hits == {i \in 1..(Len(doc) - 1) : doc[i] = "NL" /\ doc[i + 1] = pat}
         IN  IF hits = {} THEN 0 ELSE CHOOSE i \in hits : \A j \in hits : i <= j

\* Number of groups of the pattern: r'\n(## X)' has one, r'\Z' has none.
PatternGroups(pat) == IF pat = "Z" THEN 0 ELSE 1

\* The first pattern of the loop that re.search finds.
FirstInsertionPattern(doc) ==
    LET k == CHOOSE k \in 1..Len(InsertionPatterns) :
                 /\ InsertionSearch(doc, InsertionPatterns[k]) # 0
                 /\ \A j \in 1..(k - 1) : InsertionSearch(doc, InsertionPatterns[j]) = 0
    IN  InsertionPatterns[k]

\* re.sub(pattern, f'\n{section}\n\n\\1', content, count=1): the template
\* refers to group 1, so re raises re.error for a pattern without groups.
InsertSection(doc, pat, section) ==
    IF PatternGroups(pat) < 1
    THEN [raised |-> TRUE, content |-> doc]
    ELSE LET i == InsertionSearch(doc, pat)
         IN  [raised |-> FALSE,
              content |-> SubSeq(doc, 1, i - 1) \o <<"NL">> \o section \o
                          <<"NL", "NL", pat>> \o SubSeq(doc, i + 2, Len(doc))]

\* The computation of new_content in update_readme_performance.
NewContent(content, section) ==
    IF PerfSearch(content)
    THEN [raised |-> FALSE, content |-> ReSubPerf(content, 1, section, 0)]
    ELSE InsertSection(content, FirstInsertionPattern(content), section)

\* ------------------------------------------------------- the file system
\* What the environment can do to one call: nothing, fail the read with an
\* IOError, fail the read with a UnicodeDecodeError (a ValueError), fail
\* open(..., 'w') before the file is truncated, or fail the write after it.
Faults == {"none", "read_ioerror", "read_decode", "open_write", "write"}

\* update_readme_performance(readme_path, performance_section)
UpdateReadme(f, written) ==
    /\ calls < MaxCalls
    /\ UNCHANGED <<chartVars, reportVars>>
    /\ calls' = calls + 1
    /\ prev' = readme
    /\ fault' = f
    /\ LET new == NewContent(readme, PerformanceSection)
       IN  CASE f = "read_ioerror" ->
                    /\ written = 0
                    /\ ret' = "False"
                    /\ readme' = readme
              [] f = "read_decode" ->
                    /\ written = 0
                    /\ ret' = "raise"
                    /\ readme' = readme
              [] new.raised ->
                    /\ f = "none"
                    /\ written = 0
                    /\ ret' = "raise"
                    /\ readme' = readme
              [] f = "open_write" ->
                    /\ written = 0
                    /\ ret' = "False"
                    /\ readme' = readme
              [] f = "write" ->
                    /\ written < Len(new.content)
                    /\ ret' = "False"
                    /\ readme' = SubSeq(new.content, 1, written)
              [] OTHER ->
                    /\ written = 0
                    /\ ret' = "True"
                    /\ readme' = new.content

\* Values of the variables a specification does not use.
NoChart == [kind |-> "none"]
NoOut == [op |-> "none"]
NoDataset == [timestamp |-> 0, version |-> "v1", benchmarks |-> <<>>]

IdleReadme == readme = <<>> /\ prev = <<>> /\ ret = "none" /\ fault = "none" /\ calls = 0
IdleChart == data = <<>> /\ chart = NoChart
IdleReport == latest = NoDataset /\ out = NoOut
NoLoad == [by |-> "none", limit |-> 0, raised |-> FALSE, list |-> <<>>]
NoRun == [tool |-> "none", dryRun |-> FALSE, raised |-> FALSE, exit |-> 0]
IdleTools == files = <<>> /\ loaded = NoLoad /\ run = NoRun /\ outputs = {}

InitReadme ==
    /\ IdleChart
    /\ IdleReport
    /\ IdleTools
    /\ readme \in Documents
    /\ prev = <<>>
    /\ ret = "none"
    /\ fault = "none"
    /\ calls = 0

\* `written`: how much of the new content reached the file when a write fails.
CallUpdateReadme ==
    /\ UNCHANGED toolVars
    /\ \E f \in Faults :
           \E written \in 0..Len(NewContent(readme, PerformanceSection).content) :
               UpdateReadme(f, written)

NextReadme == CallUpdateReadme

SpecReadme == InitReadme /\ [][NextReadme]_vars

\* ============================================================ chart generator
\* A dataset is [timestamp, version, benchmarks]: timestamp is
\* metadata.timestamp in seconds, benchmarks the records in file order.  A
\* record is [method, DataSize, ModelType, hasMean, mean]; hasMean = FALSE
\* stands for a record without statistics.mean.
MaxRecs == 2      \* records of one dataset
MaxRichRuns == 2  \* datasets of a list whose datasets hold any records
MaxRuns == 3      \* datasets of a list whose datasets hold one valid record

Width == 800
Height == 400
Margin == 60
ChartWidth == Width - 2 * Margin
ChartHeight == Height - 2 * Margin

\* Division rounded to the nearest integer, ties to even: what '{:.1f}' and
\* '{:.0f}' print of n / d (n >= 0, d > 0), up to the error of the float.
RoundDiv(n, d) ==
    LET q == n \div d
        r == n % d
    IN  IF 2 * r < d THEN q
        ELSE IF 2 * r > d THEN q + 1
        ELSE IF q % 2 = 0 THEN q ELSE q + 1

SeqMin(s) == CHOOSE x \in {s[i] : i \in 1..Len(s)} : \A j \in 1..Len(s) : x <= s[j]
SeqMax(s) == CHOOSE x \in {s[i] : i \in 1..Len(s)} : \A j \in 1..Len(s) : x >= s[j]

\* method == m and parameters.get('DataSize') == 1 and
\* parameters.get('ModelType') == 'Small'
ChartMatch(b, method) == b.method = method /\ b.DataSize = 1 /\ b.ModelType = "Small"

\* Index of the first record the inner loop stops at (break), 0 when none.
FirstChartMatch(benchmarks, method) ==
    LET hits == {i \in 1..Len(benchmarks) : ChartMatch(benchmarks[i], method)}
    IN  IF hits = {} THEN 0 ELSE CHOOSE i \in hits : \A j \in hits : i <= j

\* The point-extraction loop: one pass over the datasets, at most one point
\* of each (the first matching record, kept when mean > 0).  Reading
\* statistics['mean'] of a record without it raises KeyError.
RECURSIVE ExtractPoints(_, _, _)
ExtractPoints(entries, method, points) ==
    IF entries = <<>> THEN [raised |-> FALSE, points |-> points]
    ELSE LET entry == Head(entries)
             i == FirstChartMatch(entry.benchmarks, method)
         IN  IF i = 0 THEN ExtractPoints(Tail(entries), method, points)
             ELSE IF ~entry.benchmarks[i].hasMean THEN [raised |-> TRUE, points |-> points]
             ELSE IF entry.benchmarks[i].mean > 0
                  THEN ExtractPoints(Tail(entries), method,
                           Append(points, [timestamp |-> entry.timestamp,
                                           mean |-> entry.benchmarks[i].mean,
                                           version |-> entry.version]))
                  ELSE ExtractPoints(Tail(entries), method, points)

Timestamps(points) == [i \in 1..Len(points) |-> points[i].timestamp]
Means(points) == [i \in 1..Len(points) |-> points[i].mean]

\* mean_range in tenths: max - min, or max * 0.1 when all means are equal.
MeanRange10(points) ==
    LET lo == SeqMin(Means(points))
        hi == SeqMax(Means(points))
    IN  IF hi # lo THEN 10 * (hi - lo) ELSE hi

\* A coordinate is the fraction num / den.
\* create_svg_chart: x = margin + chart_width * time_progress, where
\* time_progress is 0 when time_range is 0.
ChartX(points, i) ==
    LET lo == SeqMin(Timestamps(points))
        range == SeqMax(Timestamps(points)) - lo
    IN  IF range > 0
        THEN [num |-> Margin * range + ChartWidth * (points[i].timestamp - lo), den |-> range]
        ELSE [num |-> Margin, den |-> 1]

\* create_svg_chart: y = margin + chart_height * mean_progress
ChartY(points, i) ==
    LET hi == SeqMax(Means(points))
        range10 == MeanRange10(points)
    IN  [num |-> Margin * range10 + ChartHeight * 10 * (hi - points[i].mean), den |-> range10]

\* f'{v:.1f}': the coordinate in tenths.
Tenths(c) == [num |-> RoundDiv(10 * c.num, c.den), den |-> 10]

\* path_data of create_svg_chart: 'M x y' for the first point, 'L x y' after.
ChartPath(points) ==
    [i \in 1..Len(points) |->
        [cmd |-> IF i = 1 THEN "M" ELSE "L",
         x |-> Tenths(ChartX(points, i)),
         y |-> Tenths(ChartY(points, i))]]

\* The circle of each point: cx = str(x), cy = str(y).
ChartCircles(points) ==
    [i \in 1..Len(points) |-> [x |-> ChartX(points, i), y |-> ChartY(points, i)]]

\* create_svg_chart(data, method, title)
CreateSvgChart(entries, method) ==
    LET ext == ExtractPoints(entries, method, <<>>)
    IN  IF ext.raised THEN [kind |-> "raise", error |-> "KeyError", by |-> "create_svg_chart", method |-> method]
        ELSE IF Len(ext.points) < 2
        THEN [kind |-> "placeholder", by |-> "create_svg_chart", method |-> method]
        ELSE [kind |-> "svg", by |-> "create_svg_chart", method |-> method,
              path |-> ChartPath(ext.points), circles |-> ChartCircles(ext.points)]

\* _plot_data_points: x = margin + (time_offset / time_range) * chart_width,
\* y = height - margin - ((mean - min_mean) / mean_range) * chart_height;
\* the division by a time_range of 0 raises ZeroDivisionError.
PlotDataPoints(points) ==
    LET lo == SeqMin(Timestamps(points))
        range == SeqMax(Timestamps(points)) - lo
        lomean == SeqMin(Means(points))
        range10 == MeanRange10(points)
        coords == [i \in 1..Len(points) |->
                     [x |-> [num |-> Margin * range + ChartWidth * (points[i].timestamp - lo),
                             den |-> range],
                      y |-> [num |-> (Height - Margin) * range10
                                     - ChartHeight * 10 * (points[i].mean - lomean),
                             den |-> range10]]]
    IN  IF range = 0 THEN [raised |-> TRUE, path |-> <<>>, circles |-> <<>>]
        ELSE [raised |-> FALSE,
              path |-> IF Len(coords) > 1
                       THEN [i \in 1..Len(coords) |->
                               [cmd |-> IF i = 1 THEN "M" ELSE "L",
                                x |-> coords[i].x, y |-> coords[i].y]]
                       ELSE <<>>,
              circles |-> coords]

\* create_svg_chart_refactored(data, method, title)
CreateSvgChartRefactored(entries, method) ==
    LET ext == ExtractPoints(entries, method, <<>>)
    IN  IF ext.raised THEN [kind |-> "raise", error |-> "KeyError", by |-> "create_svg_chart_refactored", method |-> method]
        ELSE IF Len(ext.points) < 2
        THEN [kind |-> "placeholder", by |-> "create_svg_chart_refactored", method |-> method]
        ELSE LET plot == PlotDataPoints(ext.points)
             IN  IF plot.raised
                 THEN [kind |-> "raise", error |-> "ZeroDivisionError", by |-> "create_svg_chart_refactored", method |-> method]
                 ELSE [kind |-> "svg", by |-> "create_svg_chart_refactored", method |-> method,
                       path |-> plot.path, circles |-> plot.circles]

\* ---------------------------------------------------------- chart inputs
\* The record the charts look for, and the records that differ from it in
\* one field.
TargetRecord ==
    [method |-> "CacheHit", DataSize |-> 1, ModelType |-> "Small", hasMean |-> TRUE, mean |-> 120]
ChartRecords ==
    {TargetRecord,
     [TargetRecord EXCEPT !.mean = 300],
     [TargetRecord EXCEPT !.mean = 0],
     [TargetRecord EXCEPT !.hasMean = FALSE, !.mean = 0],
     [TargetRecord EXCEPT !.method = "NoCaching"],
     [TargetRecord EXCEPT !.ModelType = "Medium"],
     [TargetRecord EXCEPT !.DataSize = 2]}

\* Datasets with any records, at two times.
RichDatasets ==
    {[timestamp |-> t, version |-> "v1", benchmarks |-> bs] :
        t \in {0, 1}, bs \in SeqsUpTo(ChartRecords, MaxRecs)}
\* Datasets with one valid record, at times seconds and hours apart.
TimedDatasets ==
    {[timestamp |-> t, version |-> "v1", benchmarks |-> <<b>>] :
        t \in {0, 1, 2, 20000}, b \in {TargetRecord, [TargetRecord EXCEPT !.mean = 300]}}

\* The methods main() draws charts of (those the inputs hold records of).
ChartMethods == {"CacheHit", "NoCaching"}

InitChart ==
    /\ IdleReadme
    /\ IdleReport
    /\ IdleTools
    /\ data \in SeqsUpTo(RichDatasets, MaxRichRuns) \cup SeqsUpTo(TimedDatasets, MaxRuns)
    /\ chart = NoChart

DrawChart(method) ==
    /\ chart = NoChart
    /\ chart' = CreateSvgChart(data, method)
    /\ UNCHANGED <<data, readmeVars, reportVars, toolVars>>

DrawChartRefactored(method) ==
    /\ chart = NoChart
    /\ chart' = CreateSvgChartRefactored(data, method)
    /\ UNCHANGED <<data, readmeVars, reportVars, toolVars>>

NextChart ==
    \E method \in ChartMethods : DrawChart(method) \/ DrawChartRefactored(method)

SpecChart == InitChart /\ [][NextChart]_vars

\* ============================================== badges, table and section
MaxBench == 2   \* records of the latest dataset

\* BENCHMARK_PARAMETERS
DefaultDataSize == 1
DefaultModelType == "Small"

\* Thresholds of the badges and of the table cells, in ns.
HitNsLimit == 1000
HitGreenLimit == 10000
MissGreenLimit == 1000000
MissYellowLimit == 10000000
CellNsLimit == 1000
CellUsLimit == 1000000

\* A printed number: num / 10^decimals, followed by the unit.
Label(num, decimals, unit) == [num |-> num, decimals |-> decimals, unit |-> unit]

\* params.get('DataSize') == 1 and params.get('ModelType') == 'Small'
DefaultParams(b) == b.DataSize = DefaultDataSize /\ b.ModelType = DefaultModelType

\* The loops of generate_performance_badges and generate_performance_section
\* run over every record and never break: the last record of `method` with
\* the default parameters sets the value.  0 when there is none.
LastDefault(benchmarks, method) ==
    LET hits == {i \in 1..Len(benchmarks) :
                    DefaultParams(benchmarks[i]) /\ benchmarks[i].method = method}
    IN  IF hits = {} THEN 0 ELSE CHOOSE i \in hits : \A j \in hits : i >= j

\* The loop reads statistics['mean'] of every record it selects: KeyError
\* when one of them has none.
ReadsNoMean(benchmarks, methods) ==
    \E i \in 1..Len(benchmarks) :
        /\ DefaultParams(benchmarks[i])
        /\ benchmarks[i].method \in methods
        /\ ~benchmarks[i].hasMean

\* HitBadge with the first threshold off by one: 'mean <= 1000'.
HitBadgeInclusive(mean) ==
    IF mean <= HitNsLimit
    THEN [name |-> "Cache Hit", label |-> Label(mean, 0, "ns"), color |-> "brightgreen"]
    ELSE IF mean < HitGreenLimit
    THEN [name |-> "Cache Hit", label |-> Label(RoundDiv(mean, 100), 1, "us"), color |-> "green"]
    ELSE [name |-> "Cache Hit", label |-> Label(RoundDiv(mean, 1000), 0, "us"), color |-> "yellow"]

\* The cache-hit badge of a mean.
HitBadge(mean) ==
    IF mean < HitNsLimit
    THEN [name |-> "Cache Hit", label |-> Label(mean, 0, "ns"), color |-> "brightgreen"]
    ELSE IF mean < HitGreenLimit
    THEN [name |-> "Cache Hit", label |-> Label(RoundDiv(mean, 100), 1, "us"), color |-> "green"]
    ELSE [name |-> "Cache Hit", label |-> Label(RoundDiv(mean, 1000), 0, "us"), color |-> "yellow"]

\* The cache-miss badge of a mean.
MissBadge(mean) ==
    IF mean < MissGreenLimit
    THEN [name |-> "Cache Miss", label |-> Label(RoundDiv(mean, 1000), 0, "us"), color |-> "green"]
    ELSE IF mean < MissYellowLimit
    THEN [name |-> "Cache Miss", label |-> Label(RoundDiv(mean, 100000), 1, "ms"), color |-> "yellow"]
    ELSE [name |-> "Cache Miss", label |-> Label(RoundDiv(mean, 1000000), 0, "ms"), color |-> "orange"]

\* The version badge: the label is the version text.
VersionBadge(version) ==
    [name |-> "Benchmarked", label |-> Label(0, 0, version), color |-> "blue"]

\* generate_performance_badges(data)
GeneratePerformanceBadges(d) ==
    LET bs == d.benchmarks
        hit == LastDefault(bs, "CacheHit")
        miss == LastDefault(bs, "CacheMiss")
    IN  IF ReadsNoMean(bs, {"CacheHit", "CacheMiss"})
        THEN [raised |-> TRUE, badges |-> <<>>]
        ELSE [raised |-> FALSE,
              badges |-> (IF hit # 0 THEN <<HitBadge(bs[hit].mean)>> ELSE <<>>)
                         \o (IF miss # 0 THEN <<MissBadge(bs[miss].mean)>> ELSE <<>>)
                         \o <<VersionBadge(d.version)>>]

\* key_methods of generate_performance_table
KeyMethods == <<"NoCaching", "CacheMiss", "CacheHit", "CacheHitCold", "CacheInvalidation">>
ModelTypes == <<"Small", "Medium", "Large">>

NACell == [na |-> TRUE, num |-> 0, decimals |-> 0, unit |-> "N/A"]
ValueCell(num, decimals, unit) == [na |-> FALSE, num |-> num, decimals |-> decimals, unit |-> unit]

\* methods[method]: the method has a list once a record of it was seen.
MethodPresent(benchmarks, method) ==
    \E i \in 1..Len(benchmarks) : benchmarks[i].method = method

\* The search of one cell: the first record of the method with DataSize == 1
\* and the model type (break), 0 when there is none.
FindCell(benchmarks, method, modelType) ==
    LET hits == {i \in 1..Len(benchmarks) :
                    /\ benchmarks[i].method = method
                    /\ benchmarks[i].DataSize = 1
                    /\ benchmarks[i].ModelType = modelType}
    IN  IF hits = {} THEN 0 ELSE CHOOSE i \in hits : \A j \in hits : i <= j

\* The cell text of generate_performance_table for a mean > 0.
FormatTableCell(mean) ==
    IF mean < CellNsLimit THEN ValueCell(mean, 0, "ns")
    ELSE IF mean < CellUsLimit THEN ValueCell(RoundDiv(mean, 100), 1, "us")
    ELSE ValueCell(RoundDiv(mean, 100000), 1, "ms")

\* The cell text of generate_performance_summary for a mean > 0.
FormatSummaryCell(mean) ==
    IF mean < CellNsLimit THEN ValueCell(10 * mean, 1, "ns")
    ELSE IF mean < CellUsLimit THEN ValueCell(RoundDiv(mean, 100), 1, "us")
    ELSE ValueCell(RoundDiv(mean, 100000), 1, "ms")

\* TableCell without the test 'mean > 0': 'if found: ...'.
TableCellAnyMean(benchmarks, method, modelType) ==
    LET i == FindCell(benchmarks, method, modelType)
    IN  IF i # 0 THEN FormatTableCell(benchmarks[i].mean) ELSE NACell

\* 'if found and found[...]['mean'] > 0: ... else: "N/A"' for one cell.
TableCell(benchmarks, method, modelType) ==
    LET i == FindCell(benchmarks, method, modelType)
    IN  IF i # 0 /\ benchmarks[i].mean > 0
        THEN FormatTableCell(benchmarks[i].mean)
        ELSE NACell

SummaryCell(benchmarks, method, modelType) ==
    LET i == FindCell(benchmarks, method, modelType)
    IN  IF i # 0 /\ benchmarks[i].mean > 0
        THEN FormatSummaryCell(benchmarks[i].mean)
        ELSE NACell

\* A found record without statistics.mean: the cell raises KeyError.
CellReadsNoMean(benchmarks, methods) ==
    \E k \in 1..Len(methods), t \in 1..Len(ModelTypes) :
        LET i == FindCell(benchmarks, methods[k], ModelTypes[t])
        IN  i # 0 /\ ~benchmarks[i].hasMean

\* The methods of `order` that have a row: 'if method not in methods: continue'.
RowMethods(benchmarks, order) ==
    SelectSeq(order, LAMBDA m : MethodPresent(benchmarks, m))

\* generate_performance_table(data): the rows below the two header lines.
\* A row is named by its method (the label is the method with spaces put in).
GeneratePerformanceTable(d) ==
    LET bs == d.benchmarks
        ms == RowMethods(bs, KeyMethods)
    IN  IF CellReadsNoMean(bs, ms)
        THEN [raised |-> TRUE, rows |-> <<>>]
        ELSE [raised |-> FALSE,
              rows |-> [k \in 1..Len(ms) |->
                          [method |-> ms[k],
                           cells |-> [t \in 1..Len(ModelTypes) |->
                                         TableCell(bs, ms[k], ModelTypes[t])]]]]

\* sorted(methods.keys()) over the method names of the model.
MethodsSorted ==
    <<"CacheHit", "CacheHitCold", "CacheInvalidation", "CacheMiss", "NoCaching", "Warmup">>

\* generate_performance_summary(data): data is the list of datasets.
GeneratePerformanceSummary(list) ==
    IF list = <<>> THEN [raised |-> FALSE, nodata |-> TRUE, rows |-> <<>>]
    ELSE LET bs == list[Len(list)].benchmarks
             ms == RowMethods(bs, MethodsSorted)
         IN  IF CellReadsNoMean(bs, ms)
             THEN [raised |-> TRUE, nodata |-> FALSE, rows |-> <<>>]
             ELSE [raised |-> FALSE, nodata |-> FALSE,
                   rows |-> [k \in 1..Len(ms) |->
                               [method |-> ms[k],
                                cells |-> [t \in 1..Len(ModelTypes) |->
                                              SummaryCell(bs, ms[k], ModelTypes[t])]]]]

\* The speedup of generate_performance_section: shown when both times are
\* truthy and cache_hit_time > 0, printed with '{:.0f}'.
Speedup(d) ==
    LET bs == d.benchmarks
        hit == LastDefault(bs, "CacheHit")
        base == LastDefault(bs, "NoCaching")
    IN  IF hit # 0 /\ base # 0 /\ bs[hit].mean # 0 /\ bs[base].mean # 0 /\ bs[hit].mean > 0
        THEN [shown |-> TRUE, times |-> RoundDiv(bs[base].mean, bs[hit].mean)]
        ELSE [shown |-> FALSE, times |-> 0]

\* generate_performance_section(data): badges, table, speedup.
GeneratePerformanceSection(d) ==
    LET badges == GeneratePerformanceBadges(d)
        table == GeneratePerformanceTable(d)
    IN  IF badges.raised \/ table.raised \/ ReadsNoMean(d.benchmarks, {"CacheHit", "NoCaching"})
        THEN [raised |-> TRUE, badges |-> <<>>, rows |-> <<>>, speedup |-> [shown |-> FALSE, times |-> 0]]
        ELSE [raised |-> FALSE, badges |-> badges.badges, rows |-> table.rows,
              speedup |-> Speedup(d)]

\* --------------------------------------------------------- report inputs
BaseRecord ==
    [method |-> "CacheHit", DataSize |-> 1, ModelType |-> "Small", hasMean |-> TRUE, mean |-> 500]
\* Cache-hit and cache-miss records with the default parameters, with means
\* at and next to every threshold, 0 and absent.
BadgeRecords ==
    {[BaseRecord EXCEPT !.mean = m] : m \in {0, 500, 999, 1000, 9999, 10000}}
    \cup {[BaseRecord EXCEPT !.method = "CacheMiss", !.mean = m] :
             m \in {999999, 1000000, 9999999, 10000000}}
    \cup {[BaseRecord EXCEPT !.hasMean = FALSE, !.mean = 0]}
\* Records of a key method and of another method, with other parameters and
\* with means of every cell format, 0, negative and absent.
TableRecords ==
    {[BaseRecord EXCEPT !.method = "NoCaching", !.mean = m] : m \in {-5, 0, 1500, 2500000}}
    \cup {[BaseRecord EXCEPT !.method = "NoCaching", !.hasMean = FALSE, !.mean = 0],
          [BaseRecord EXCEPT !.method = "NoCaching", !.ModelType = "Medium"],
          [BaseRecord EXCEPT !.method = "NoCaching", !.ModelType = "Large", !.mean = 0],
          [BaseRecord EXCEPT !.method = "NoCaching", !.DataSize = 2],
          [BaseRecord EXCEPT !.ModelType = "Large", !.mean = 1500],
          [BaseRecord EXCEPT !.method = "Warmup"]}

ReportDatasets ==
    {[timestamp |-> 0, version |-> "v1", benchmarks |-> bs] :
        bs \in SeqsUpTo(BadgeRecords \cup TableRecords, MaxBench)}

InitReport ==
    /\ IdleReadme
    /\ IdleChart
    /\ IdleTools
    /\ latest \in ReportDatasets
    /\ out = NoOut

Result(op, r) == [op |-> op] @@ r

Badges ==
    /\ out = NoOut
    /\ out' = Result("badges", GeneratePerformanceBadges(latest))
    /\ UNCHANGED <<latest, readmeVars, chartVars, toolVars>>

Table ==
    /\ out = NoOut
    /\ out' = Result("table", GeneratePerformanceTable(latest))
    /\ UNCHANGED <<latest, readmeVars, chartVars, toolVars>>

Section ==
    /\ out = NoOut
    /\ out' = Result("section", GeneratePerformanceSection(latest))
    /\ UNCHANGED <<latest, readmeVars, chartVars, toolVars>>

Summary ==
    /\ out = NoOut
    /\ out' = Result("summary", GeneratePerformanceSummary(<<latest>>))
    /\ UNCHANGED <<latest, readmeVars, chartVars, toolVars>>

NextReport == Badges \/ Table \/ Section \/ Summary

SpecReport == InitReport /\ [][NextReport]_vars

\* ================================================================ the loaders
MaxFiles == 3   \* benchmark files in the data directory

\* What opening and parsing a benchmark file gives: a dataset ("ok"), a
\* json.JSONDecodeError ("malformed"), an IOError of open() ("unreadable"),
\* or a UnicodeDecodeError of read() ("undecodable": a ValueError that is
\* neither an IOError nor a JSONDecodeError).
BadFileStates == {"malformed", "unreadable", "undecodable"}

\* The datasets of the files: two runs with a valid record and one run
\* whose record has no statistics.mean.
FileDatasets ==
    {[timestamp |-> 0, version |-> "v1", benchmarks |-> <<TargetRecord>>],
     [timestamp |-> 1, version |-> "v2", benchmarks |-> <<[TargetRecord EXCEPT !.mean = 300]>>],
     [timestamp |-> 2, version |-> "v3",
      benchmarks |-> <<[TargetRecord EXCEPT !.hasMean = FALSE, !.mean = 0]>>]}

BenchmarkFiles ==
    {[state |-> "ok", dataset |-> d] : d \in FileDatasets}
    \cup {[state |-> st, dataset |-> NoDataset] : st \in BadFileStates}

Reverse(s) == [i \in 1..Len(s) |-> s[Len(s) + 1 - i]]

\* sorted(glob.glob('benchmark-*.json'), reverse=True): `fs` lists the files
\* by filename, so the sorted list is `fs` from its last file to its first.
DataFiles(fs) == Reverse(fs)

\* data_files[:limit] when limit > 0
Limited(dataFiles, limit) ==
    IF limit > 0 /\ limit < Len(dataFiles) THEN SubSeq(dataFiles, 1, limit) ELSE dataFiles

\* The loop of load_performance_data: json.load of every file, in order;
\* 'except Exception' prints the error and goes on to the next file.
RECURSIVE LoadEach(_, _)
LoadEach(dataFiles, loadedSoFar) ==
    IF dataFiles = <<>> THEN loadedSoFar
    ELSE LET f == Head(dataFiles)
         IN  LoadEach(Tail(dataFiles),
                      IF f.state = "ok" THEN Append(loadedSoFar, f.dataset) ELSE loadedSoFar)

\* load_performance_data(limit): the datasets, oldest first.
LoadPerformanceData(fs, limit) ==
    [by |-> "load_performance_data", limit |-> limit, raised |-> FALSE,
     list |-> Reverse(LoadEach(Limited(DataFiles(fs), limit), <<>>))]

\* load_latest_performance_data(): json.load of data_files[0] alone; IOError
\* and JSONDecodeError give None, any other exception leaves the function.
\* `list` holds the returned dataset, and is empty for None; `limit` is the
\* argument of load_performance_data, 0 here.
LoadLatestPerformanceData(fs) ==
    IF DataFiles(fs) = <<>>
    THEN [by |-> "load_latest_performance_data", limit |-> 0, raised |-> FALSE, list |-> <<>>]
    ELSE LET f == DataFiles(fs)[1]
         IN  IF f.state = "ok"
             THEN [by |-> "load_latest_performance_data", limit |-> 0, raised |-> FALSE, list |-> <<f.dataset>>]
             ELSE IF f.state \in {"malformed", "unreadable"}
             THEN [by |-> "load_latest_performance_data", limit |-> 0, raised |-> FALSE, list |-> <<>>]
             ELSE [by |-> "load_latest_performance_data", limit |-> 0, raised |-> TRUE, list |-> <<>>]

InitLoad ==
    /\ IdleReadme
    /\ IdleChart
    /\ IdleReport
    /\ files \in SeqsUpTo(BenchmarkFiles, MaxFiles)
    /\ loaded = NoLoad
    /\ run = NoRun
    /\ outputs = {}

\* `limit`: the --limit argument; 0 reads every file.
LoadAll(limit) ==
    /\ loaded = NoLoad
    /\ loaded' = LoadPerformanceData(files, limit)
    /\ UNCHANGED <<files, run, outputs, readmeVars, chartVars, reportVars>>

LoadLatest ==
    /\ loaded = NoLoad
    /\ loaded' = LoadLatestPerformanceData(files)
    /\ UNCHANGED <<files, run, outputs, readmeVars, chartVars, reportVars>>

NextLoad == LoadLatest \/ \E limit \in 0..MaxFiles : LoadAll(limit)

SpecLoad == InitLoad /\ [][NextLoad]_vars

\* ============================================================ the two tools
\* The target documents of the runs: empty, with a performance section,
\* with a fallback anchor after a newline, and with an anchor on line one.
TargetDocuments == {<<>>, <<"P", "NL", "T">>, <<"T", "NL", "C">>, <<"L">>}

\* Exit status of 'exit(main())': the returned value, or 1 when an
\* exception leaves main (the traceback of the interpreter).
UpdaterExit(raised, returned) == IF raised THEN 1 ELSE returned
\* Exit status of a bare 'main()': 0 whatever main returns, 1 when an
\* exception leaves it.
ChartsExit(raised) == IF raised THEN 1 ELSE 0

UpdaterRun(dryRun, raised, returned) ==
    [tool |-> "updater", dryRun |-> dryRun, raised |-> raised,
     exit |-> UpdaterExit(raised, returned)]
ChartsRun(raised) ==
    [tool |-> "charts", dryRun |-> FALSE, raised |-> raised, exit |-> ChartsExit(raised)]

\* main() of update-readme-performance.py, run with or without --dry-run.
MainUpdater(dryRun) ==
    /\ run = NoRun
    /\ UNCHANGED <<files, outputs>>
    /\ LET got == LoadLatestPerformanceData(files)
       IN  /\ loaded' = got
           /\ IF got.raised
              THEN run' = UpdaterRun(dryRun, TRUE, 1)
                   /\ UNCHANGED <<readmeVars, chartVars, reportVars>>
              ELSE IF got.list = <<>>
              THEN run' = UpdaterRun(dryRun, FALSE, 1)
                   /\ UNCHANGED <<readmeVars, chartVars, reportVars>>
              ELSE IF GeneratePerformanceSection(got.list[1]).raised
              THEN run' = UpdaterRun(dryRun, TRUE, 1)
                   /\ UNCHANGED <<readmeVars, chartVars, reportVars>>
              ELSE IF dryRun
              THEN run' = UpdaterRun(dryRun, FALSE, 0)
                   /\ UNCHANGED <<readmeVars, chartVars, reportVars>>
              ELSE /\ \E f \in Faults :
                          \E written \in 0..Len(NewContent(readme, PerformanceSection).content) :
                              UpdateReadme(f, written)
                   /\ run' = UpdaterRun(dryRun, ret' = "raise", IF ret' = "True" THEN 0 ELSE 1)

\* The output files of the chart generator, in the order main writes them.
ChartOutputs == <<"chart-cachehit.svg", "chart-cachemiss.svg", "chart-nocaching.svg", "PERFORMANCE.md">>
\* The methods main draws a chart of, in order.
MainMethods == <<"CacheHit", "CacheMiss", "NoCaching">>

\* Step k of main raises: a chart or the summary cannot be generated, or
\* open(..., 'w') of the k-th output fails (`failing`).
StepRaises(list, k, failing) ==
    \/ k = failing
    \/ k <= Len(MainMethods) /\ CreateSvgChart(list, MainMethods[k]).kind = "raise"
    \/ k = Len(ChartOutputs) /\ GeneratePerformanceSummary(list).raised

\* main() of generate-charts.py, run with --limit; `failing` is the output
\* file the environment refuses to open, 0 for none.
MainCharts(limit, failing) ==
    /\ run = NoRun
    /\ UNCHANGED <<files, readmeVars, chartVars, reportVars>>
    /\ LET got == LoadPerformanceData(files, limit)
           done == {k \in 1..Len(ChartOutputs) :
                       \A j \in 1..k : ~StepRaises(got.list, j, failing)}
       IN  /\ loaded' = got
           /\ IF got.list = <<>>
              THEN run' = ChartsRun(FALSE) /\ outputs' = outputs
              ELSE /\ outputs' = outputs \cup {ChartOutputs[k] : k \in done}
                   /\ run' = ChartsRun(Cardinality(done) < Len(ChartOutputs))

InitMain ==
    /\ IdleChart
    /\ IdleReport
    /\ readme \in TargetDocuments
    /\ prev = readme
    /\ ret = "none"
    /\ fault = "none"
    /\ calls = 0
    /\ files \in SeqsUpTo(BenchmarkFiles, MaxFiles)
    /\ loaded = NoLoad
    /\ run = NoRun
    /\ outputs = {}

NextMain ==
    \/ \E dryRun \in BOOLEAN : MainUpdater(dryRun)
    \/ \E limit \in 0..MaxFiles, failing \in 0..Len(ChartOutputs) : MainCharts(limit, failing)

SpecMain == InitMain /\ [][NextMain]_vars

\* =================================================================== claims
\* --------------------------------------------------- the document updater
\* A call that no I/O fault disturbed has been made.
UndisturbedCall == calls > 0 /\ fault = "none"

\* A heading token `t` stands at the start of a line of `doc`.
HeadingAt(doc, i, t) == doc[i] = t /\ (i = 1 \/ doc[i - 1] = "NL")
HasHeading(doc, t) == \E i \in 1..Len(doc) : HeadingAt(doc, i, t)
HasPerformanceHeading(doc) == \E i \in 1..Len(doc) : doc[i] \in {"P", "PE"}
AnchorHeadings == <<"C", "L", "S", "D">>
HasAnchorHeading(doc) == \E k \in 1..Len(AnchorHeadings) : HasHeading(doc, AnchorHeadings[k])

\* The first performance section of `doc`: from the first performance heading
\* up to the next "\n## " / "\n# " heading or the end of the document.
FirstSectionStart(doc) ==
    CHOOSE i \in 1..Len(doc) :
        doc[i] \in {"P", "PE"} /\ \A j \in 1..(i - 1) : doc[j] \notin {"P", "PE"}
NextHeadingOrEnd(doc, i) ==
    LET stops == {e \in (i + 1)..Len(doc) :
                     e < Len(doc) /\ doc[e] = "NL" /\ doc[e + 1] \in {"H1", "H2", "P", "PE", "C", "L", "S", "D"}}
    IN  IF stops = {} THEN Len(doc) + 1 ELSE CHOOSE e \in stops : \A f \in stops : e <= f

Newlines(n) == [i \in 1..n |-> "NL"]

\* `new` is `old` with the section put in at position i (before old[i]),
\* set off by at most two newlines on either side.
SectionInsertedAt(old, new, i) ==
    \E a \in 0..2, b \in 0..2 :
        new = SubSeq(old, 1, i - 1) \o Newlines(a) \o PerformanceSection \o Newlines(b)
              \o SubSeq(old, i, Len(old))

\* C1: on a document with a performance heading, only the first section (the
\* heading up to the next "\n## " / "\n# " heading or the end) is replaced;
\* everything outside that span, a later performance heading included, is
\* unchanged.
C1_OnlyFirstSectionReplaced ==
    (UndisturbedCall /\ HasPerformanceHeading(prev)) =>
        LET i == FirstSectionStart(prev)
            e == NextHeadingOrEnd(prev, i)
        IN  /\ ret = "True"
            /\ readme = SubSeq(prev, 1, i - 1) \o PerformanceSection \o SubSeq(prev, e, Len(prev))

\* C2: on a document with no performance section and no fallback anchor
\* heading, the section is appended at the end of the document, the result
\* is written and the call returns True.
C2_AppendedAtEnd ==
    (UndisturbedCall /\ ~HasPerformanceHeading(prev)
        /\ \A i \in 1..Len(prev) : prev[i] \notin {"C", "L", "S", "D"}) =>
        /\ ret = "True"
        /\ SectionInsertedAt(prev, readme, Len(prev) + 1)

\* C3: on a document with no performance section and at least one fallback
\* anchor heading, the section is inserted once, immediately before the first
\* occurrence of the highest-priority anchor heading present (Contributing,
\* License, Support, Documentation), whatever the order of the anchors in the
\* document; the original content is kept in order.
C3_InsertedBeforeBestAnchor ==
    (UndisturbedCall /\ ~HasPerformanceHeading(prev) /\ HasAnchorHeading(prev)) =>
        LET k == CHOOSE k \in 1..Len(AnchorHeadings) :
                     /\ HasHeading(prev, AnchorHeadings[k])
                     /\ \A j \in 1..(k - 1) : ~HasHeading(prev, AnchorHeadings[j])
            i == CHOOSE i \in 1..Len(prev) :
                     /\ HeadingAt(prev, i, AnchorHeadings[k])
                     /\ \A j \in 1..(i - 1) : ~HeadingAt(prev, j, AnchorHeadings[k])
        IN  /\ ret = "True"
            /\ SectionInsertedAt(prev, readme, i)

\* C4: every call ends either returning True with the complete new document
\* in the file, or returning False with the file as it was before the call;
\* it never raises and never leaves the file empty or partially written.
C4_AllOrNothing ==
    calls > 0 =>
        \/ ret = "True" /\ readme = NewContent(prev, PerformanceSection).content
        \/ ret = "False" /\ readme = prev

\* ------------------------------------------------------ the chart renderer
\* Dataset d contributes a valid point for `method`: its first record for
\* (method, DataSize = 1, ModelType = "Small") has a mean > 0.
IsLookedUp(b, method) == b.method = method /\ b.DataSize = 1 /\ b.ModelType = "Small"
FirstLookedUp(d, method, i) ==
    /\ IsLookedUp(d.benchmarks[i], method)
    /\ \A j \in 1..(i - 1) : ~IsLookedUp(d.benchmarks[j], method)
Contributes(d, method) ==
    \E i \in 1..Len(d.benchmarks) :
        /\ FirstLookedUp(d, method, i)
        /\ d.benchmarks[i].hasMean
        /\ d.benchmarks[i].mean > 0
\* The record looked up in d has no statistics.mean.
LooksUpNoMean(d, method) ==
    \E i \in 1..Len(d.benchmarks) : FirstLookedUp(d, method, i) /\ ~d.benchmarks[i].hasMean

Contributors(method) == SelectSeq(data, LAMBDA d : Contributes(d, method))
AllMeansPresent(method) == \A k \in 1..Len(data) : ~LooksUpNoMean(data[k], method)
Drawn == chart.kind # "none"

FracLess(a, b) == a.num * b.den < b.num * a.den
\* b - a = c - b
FracEvenStep(a, b, c) ==
    (b.num * a.den - a.num * b.den) * (c.den * b.den)
        = (c.num * b.den - b.num * c.den) * (b.den * a.den)

\* C5: N >= 2 valid points with pairwise distinct timestamps give one path
\* of exactly N vertices, an M followed by N - 1 L, whose x-coordinates
\* increase strictly from the first vertex to the last.
C5_PathXStrictlyIncreasing ==
    (Drawn /\ chart.by = "create_svg_chart" /\ AllMeansPresent(chart.method)) =>
        LET valid == Contributors(chart.method)
            N == Len(valid)
        IN  (N >= 2 /\ \A i, j \in 1..N : i # j => valid[i].timestamp # valid[j].timestamp) =>
                /\ chart.kind = "svg"
                /\ Len(chart.path) = N
                /\ \A i \in 1..N : chart.path[i].cmd = (IF i = 1 THEN "M" ELSE "L")
                /\ \A i \in 1..(N - 1) : FracLess(chart.path[i].x, chart.path[i + 1].x)

\* C6: when the N >= 2 valid points share one timestamp, neither renderer
\* divides by zero, and the N points get N distinct, evenly spaced
\* x-coordinates.
C6_ZeroRangeEvenlySpaced ==
    (Drawn /\ AllMeansPresent(chart.method)) =>
        LET valid == Contributors(chart.method)
            N == Len(valid)
        IN  (N >= 2 /\ \A i, j \in 1..N : valid[i].timestamp = valid[j].timestamp) =>
                /\ chart.kind = "svg"
                /\ Len(chart.circles) = N
                /\ \A i, j \in 1..N : i < j => FracLess(chart.circles[i].x, chart.circles[j].x)
                /\ \A i \in 1..(N - 2) :
                       FracEvenStep(chart.circles[i].x, chart.circles[i + 1].x, chart.circles[i + 2].x)

\* C7: with fewer than two contributing datasets the renderer returns the
\* placeholder for the method; with two or more it returns an SVG document
\* with one point per contributing dataset.
C7_PlaceholderOrSvg ==
    Drawn =>
        LET N == Len(Contributors(chart.method))
        IN  /\ N < 2 => chart.kind = "placeholder"
            /\ N >= 2 => chart.kind = "svg" /\ Len(chart.circles) = N

\* ------------------------------------------------ badges, table, section
Generated(op) == out.op = op /\ ~out.raised

\* The records of the latest dataset for (method, DataSize = 1, modelType).
Matching(method, modelType) ==
    {i \in 1..Len(latest.benchmarks) :
        /\ latest.benchmarks[i].method = method
        /\ latest.benchmarks[i].DataSize = 1
        /\ latest.benchmarks[i].ModelType = modelType}
FirstMatching(method, modelType) ==
    CHOOSE i \in Matching(method, modelType) : \A j \in Matching(method, modelType) : i <= j
HasRecords(method) == \E i \in 1..Len(latest.benchmarks) : latest.benchmarks[i].method = method
PresentKeyMethods == SelectSeq(KeyMethods, HasRecords)

\* The cell shows `mean`: the printed number, in ns, is the mean rounded at
\* the last printed digit.
Power10(n) == IF n = 0 THEN 1 ELSE 10
NsOf(unit) == IF unit = "ns" THEN 1 ELSE IF unit = "us" THEN 1000 ELSE 1000000
ShowsMean(cell, mean) ==
    /\ ~cell.na
    /\ cell.unit \in {"ns", "us", "ms"}
    /\ LET err == cell.num * NsOf(cell.unit) - mean * Power10(cell.decimals)
       IN  2 * err <= NsOf(cell.unit) /\ -2 * err <= NsOf(cell.unit)

\* Row r of the table is the row of `method`: three cells, a cell "N/A"
\* exactly when no record matches or the matching record's mean is <= 0,
\* and the formatted mean of that record otherwise.
CellsOf(r, method) ==
    /\ r.method = method
    /\ Len(r.cells) = Len(ModelTypes)
    /\ \A t \in 1..Len(ModelTypes) :
           LET hits == Matching(method, ModelTypes[t])
               first == latest.benchmarks[FirstMatching(method, ModelTypes[t])]
           IN  /\ r.cells[t].na <=> (hits = {} \/ first.mean <= 0)
               /\ ~r.cells[t].na => ShowsMean(r.cells[t], first.mean)

\* C8 (as stated): the table has one row for every key method, in order, and
\* one cell per configuration; a cell is "N/A" iff no record matches or the
\* record's mean is <= 0, and shows the formatted mean otherwise.
C8_RowForEveryKeyMethod ==
    Generated("table") =>
        /\ Len(out.rows) = Len(KeyMethods)
        /\ \A k \in 1..Len(KeyMethods) : CellsOf(out.rows[k], KeyMethods[k])

\* C8 (amended): the table has one row, in key-method order, for every key
\* method that has a record in the dataset, and none for the others; each
\* row has one cell per configuration, "N/A" iff no record matches or the
\* first matching record's mean is <= 0, the formatted mean otherwise.
C8_RowForEveryPresentKeyMethod ==
    Generated("table") =>
        /\ Len(out.rows) = Len(PresentKeyMethods)
        /\ \A k \in 1..Len(PresentKeyMethods) : CellsOf(out.rows[k], PresentKeyMethods[k])

\* A table with a row that holds an "N/A" cell for a record with mean <= 0
\* and a row that holds a value, while some key method has no row.
C8_Witness ==
    /\ Generated("table")
    /\ Len(out.rows) < Len(KeyMethods)
    /\ \E k \in 1..Len(out.rows), t \in 1..Len(ModelTypes) :
           out.rows[k].cells[t].na /\ Matching(out.rows[k].method, ModelTypes[t]) # {}
    /\ \E k \in 1..Len(out.rows), t \in 1..Len(ModelTypes) : ~out.rows[k].cells[t].na

\* The means of the records a badge of `method` can be computed from.
DefaultMeans(method) ==
    {latest.benchmarks[i].mean : i \in Matching(method, "Small")}
BadgesNamed(name) == {i \in 1..Len(out.badges) : out.badges[i].name = name}

\* The badge of `name` is the badge of one record of `method`, coloured by
\* the tiers `first` below lo, `second` from lo and below hi, `third` from hi.
TieredBadge(name, method, lo, hi, first, second, third) ==
    /\ (BadgesNamed(name) # {}) <=> (DefaultMeans(method) # {})
    /\ \A i \in BadgesNamed(name) :
           \E m \in DefaultMeans(method) :
               /\ m < lo => out.badges[i].color = first
               /\ (lo <= m /\ m < hi) => out.badges[i].color = second
               /\ hi <= m => out.badges[i].color = third
               /\ m = 500 => out.badges[i].label = Label(500, 0, "ns")

\* C9: the colour depends on the mean alone, with the thresholds exact at
\* the boundaries.  Cache-hit badge: mean < 1000 gives the first, green tier
\* (the badge colour "brightgreen"), 1000 <= mean < 10000 the next tier
\* ("green"), mean >= 10000 yellow, so 999 is in the first tier and 1000 in
\* the next.  Cache-miss badge: the tiers switch at 1,000,000 and at
\* 10,000,000.  A CacheHit mean of 500 gives the label 500ns in the first tier.
C9_BadgeTiers ==
    Generated("badges") =>
        /\ TieredBadge("Cache Hit", "CacheHit", 1000, 10000, "brightgreen", "green", "yellow")
        /\ TieredBadge("Cache Miss", "CacheMiss", 1000000, 10000000, "green", "yellow", "orange")

\* Badges of a cache-hit mean of exactly 1000 and a cache-miss mean of
\* exactly 1000000: the first means of the second tiers.
C9_Witness ==
    /\ Generated("badges")
    /\ DefaultMeans("CacheHit") = {1000}
    /\ DefaultMeans("CacheMiss") = {1000000}
    /\ Len(out.badges) = 3

\* Every record of (method, DataSize = 1, modelType) is without a valid
\* measurement: its mean is 0 or absent.
NoMeasurement(method, modelType) ==
    /\ Matching(method, modelType) # {}
    /\ \A i \in Matching(method, modelType) :
           ~latest.benchmarks[i].hasMean \/ latest.benchmarks[i].mean = 0

\* C10: a record whose mean is 0 or absent gives no badge, no speedup text
\* and an "N/A" cell, and never makes a generator fail.
C10_ZeroOrAbsentIsNoMeasurement ==
    out.op # "none" =>
        /\ ~out.raised
        /\ (out.op \in {"badges", "section"} /\ NoMeasurement("CacheHit", "Small"))
               => BadgesNamed("Cache Hit") = {}
        /\ (out.op \in {"badges", "section"} /\ NoMeasurement("CacheMiss", "Small"))
               => BadgesNamed("Cache Miss") = {}
        /\ (out.op = "section"
                /\ (NoMeasurement("CacheHit", "Small") \/ NoMeasurement("NoCaching", "Small")))
               => ~out.speedup.shown
        /\ out.op \in {"table", "section", "summary"} =>
               \A k \in 1..Len(out.rows), t \in 1..Len(ModelTypes) :
                   NoMeasurement(out.rows[k].method, ModelTypes[t]) => out.rows[k].cells[t].na

\* The records of `bs` that are the first of their (method, parameters) pair,
\* in benchmark order.
RECURSIVE FirstOfEachPair(_, _)
FirstOfEachPair(bs, kept) ==
    IF bs = <<>> THEN kept
    ELSE LET b == Head(bs)
             seen == \E i \in 1..Len(kept) :
                         /\ kept[i].method = b.method
                         /\ kept[i].DataSize = b.DataSize
                         /\ kept[i].ModelType = b.ModelType
         IN  FirstOfEachPair(Tail(bs), IF seen THEN kept ELSE Append(kept, b))
WithoutLaterDuplicates(d) == [d EXCEPT !.benchmarks = FirstOfEachPair(d.benchmarks, <<>>)]
HasDuplicates(d) == Len(FirstOfEachPair(d.benchmarks, <<>>)) < Len(d.benchmarks)

\* C11: when the dataset holds several records of one (method, parameters)
\* pair, the badges, the speedup, and the table cells are those of the first
\* record of each pair: every generator returns what it returns for the
\* dataset without the later records of each pair.
C11_FirstRecordOfPairUsed ==
    (out.op # "none" /\ ~out.raised) =>
        LET d == WithoutLaterDuplicates(latest)
        IN  /\ out.op = "badges" => out = Result("badges", GeneratePerformanceBadges(d))
            /\ out.op = "table" => out = Result("table", GeneratePerformanceTable(d))
            /\ out.op = "section" => out = Result("section", GeneratePerformanceSection(d))
            /\ out.op = "summary" => out = Result("summary", GeneratePerformanceSummary(<<d>>))

\* ------------------------------------------------------------- the loaders
\* The files a loader call looks at: all of them, or the `limit` newest.
Considered(limit) ==
    IF limit > 0 /\ limit < Len(files)
    THEN SubSeq(files, Len(files) - limit + 1, Len(files))
    ELSE files
\* The datasets of the parseable files among `fs`, oldest first.
Parseable(fs) ==
    LET ok == SelectSeq(fs, LAMBDA f : f.state = "ok")
    IN  [i \in 1..Len(ok) |-> ok[i].dataset]

\* C12: a malformed or unreadable file is skipped and never aborts the load.
\* load_performance_data returns the datasets of the parseable files it was
\* to read, oldest first; load_latest_performance_data returns the dataset
\* of the most recent parseable file; either returns "no data" only when no
\* file is parseable, and neither raises.
C12_BadFilesSkipped ==
    loaded.by # "none" =>
        /\ ~loaded.raised
        /\ loaded.by = "load_performance_data" =>
               loaded.list = Parseable(Considered(loaded.limit))
        /\ loaded.by = "load_latest_performance_data" =>
               LET all == Parseable(files)
               IN  loaded.list = (IF all = <<>> THEN <<>> ELSE <<all[Len(all)]>>)

\* -------------------------------------------------------------- exit codes
Ran == run.tool # "none"
\* The loader gave the run no dataset.
NoUsableData == loaded.list = <<>>
\* Every output of the run is written: the target document of the updater
\* (nothing in a dry run), the charts and the dashboard of the generator.
OutputsWritten ==
    IF run.tool = "updater"
    THEN run.dryRun \/ (ret = "True" /\ readme = NewContent(prev, PerformanceSection).content)
    ELSE outputs = {ChartOutputs[k] : k \in 1..Len(ChartOutputs)}
Succeeded == ~NoUsableData /\ ~run.raised /\ OutputsWritten

\* C13: the exit code of either tool is 0 exactly when the run succeeded,
\* and 1 when there is no usable data or an output file could not be
\* written; a dry run of the updater exits 0 and leaves the target file as
\* it was.
C13_ExitCodes ==
    Ran =>
        /\ run.exit \in {0, 1}
        /\ run.exit = 0 <=> Succeeded
        /\ (NoUsableData \/ ~OutputsWritten) => run.exit = 1
        /\ run.dryRun => readme = prev /\ calls = 0
        /\ (run.dryRun /\ ~NoUsableData /\ ~run.raised) => run.exit = 0

\* ------------------------------------------------------------- idempotence
\* The positions of `doc` where the generated section stands.
SectionOccurrences(doc) ==
    {i \in 1..(Len(doc) - Len(PerformanceSection) + 1) :
        SubSeq(doc, i, i + Len(PerformanceSection) - 1) = PerformanceSection}

\* A second call follows a first one, and no I/O fault disturbed either.
SecondUndisturbedCall == calls = 1 /\ fault = "none" /\ calls' = 2 /\ fault' = "none"

\* C14: for every initial document, a second update with the same generated
\* section leaves the target file exactly as the first update left it, and
\* the document then holds the generated section exactly once.
C14_SecondUpdateChangesNothing ==
    [][SecondUndisturbedCall =>
          /\ readme' = readme
          /\ Cardinality(SectionOccurrences(readme')) = 1]_vars

====
